---- MODULE Spec2Model ----
(***************************************************************************)
(* State-machine model of the agents_ui backend: the SQLite storage bridge *)
(* (app/db.py, class Database) and the streaming chat route (app/core.py). *)
(*                                                                         *)
(* Request tasks run on one asyncio event loop.  Every storage step goes   *)
(* through Database._asyncify, which submits it to a ThreadPoolExecutor    *)
(* (FIFO work queue) and suspends the task until the step's result has     *)
(* been delivered through the loop's FIFO ready queue.                     *)
(***************************************************************************)
EXTENDS Integers, Sequences, FiniteSets, TLC

\* ------------------------------------------------------------------ bounds
MaxReq == 3        \* request tasks of a behaviour whose requests come one after another
MaxConc == 2       \* request tasks of a behaviour whose requests overlap
MaxRuns == 1       \* streaming runs of a behaviour
MaxNodes == 3      \* nodes one agent run emits at most
MaxClock == 1      \* last reading of the wall clock
MaxOwn == 4        \* request tasks of a behaviour in which an identifier changes owner

\* ------------------------------------------------------- program constants
max_workers_two == 1 + 1
max_workers == 1

Requests == 1..MaxOwn
SeqRequests == 1..MaxReq
Workers == 1..max_workers
ConcRequests == 1..MaxConc
SessionIds == {"s1"}       \* identifiers clients send
FreshIds == {"s2"}         \* identifiers create_new_session generates
Users == {"alice", "bob"}
all_agents == {"search_bot", "databot"}
AgentNames == all_agents
Unregistered == {"no_bot"}  \* an agent_name a client sends that agents.all_agents lacks

VARIABLES
    sessions,   \* table sessions: set of rows
    messages,   \* table messages: set of rows
    seq,        \* sqlite_sequence of messages (AUTOINCREMENT)
    queue,      \* work queue of the executor: steps submitted, not yet taken
    running,    \* per worker thread: the step it executes, or <<>>
    ready,      \* ready queue of the event loop: results to deliver
    now,        \* wall clock (datetime.utcnow)
    pc,         \* per request task: where it is suspended
    args,       \* per request task: its inputs
    loc,        \* per request task: local variables (agent_name, messages)
    ret,        \* per request task: value returned / error raised
    out,        \* per streaming request: chunks flushed to the client
    nodes,      \* per streaming request: nodes the agent run has emitted
    addCalls,   \* per request: number of add_messages calls made
    inflight,   \* history: requests whose step is submitted and not finished, in submission order
    seen,       \* history: what the tables held for (sid, user) when the latest SELECT of the request ran
    wrote,      \* history: the DML statements of the request that changed a table
    during      \* history: the requests that were in flight when the request started

vars == <<sessions, messages, seq, queue, running, ready, now, pc, args, loc,
          ret, out, nodes, addCalls, inflight, seen, wrote, during>>

dbVars == <<sessions, messages, seq>>
bridgeVars == <<queue, running, ready, inflight>>
streamVars == <<out, nodes>>

NoStep == <<>>
NoToken == [kind |-> "none", sub |-> "none"]
NoArgs == [op |-> "none", sid |-> "none", user |-> "none", agent |-> "none",
           token |-> NoToken]
NoLoc == [agent_name |-> "none", history |-> <<>>]
NoRet == [kind |-> "none", val |-> <<>>]

Final == {"done", "failed", "cancelled"}
InFlight(r) == pc[r] \notin (Final \cup {"idle"})

\* --------------------------------------------------------------- helpers
RECURSIVE SortById(_)
SortById(rows) ==
    IF rows = {} THEN <<>>
    ELSE LET m == CHOOSE x \in rows : \A y \in rows : x.id <= y.id
         IN <<m>> \o SortById(rows \ {m})

RECURSIVE SetToSeq(_)
SetToSeq(rows) ==
    IF rows = {} THEN <<>>
    ELSE LET m == CHOOSE x \in rows : TRUE
         IN <<m>> \o SetToSeq(rows \ {m})

RECURSIVE Flatten(_)
Flatten(ss) == IF ss = <<>> THEN <<>> ELSE Head(ss) \o Flatten(Tail(ss))

RECURSIVE Without(_, _)
Without(s, r) ==
    IF s = <<>> THEN <<>>
    ELSE IF Head(s) = r THEN Without(Tail(s), r)
    ELSE <<Head(s)>> \o Without(Tail(s), r)

RECURSIVE WithoutReq(_, _)
WithoutReq(s, r) ==
    IF s = <<>> THEN <<>>
    ELSE IF Head(s).req = r THEN WithoutReq(Tail(s), r)
    ELSE <<Head(s)>> \o WithoutReq(Tail(s), r)

\* the message list a direct add_messages call of request r is given
Payload(r) == <<<<r, 1>>, <<r, 2>>>>


\* ------------------------------------------------------------ the tables
Classify(sid, user) ==
    IF \E s \in sessions : s.id = sid /\ s.username = user THEN "own"
    ELSE IF \E s \in sessions : s.id = sid THEN "foreign"
    ELSE "absent"

\* SELECT id, agent_name FROM sessions WHERE id = ? AND username = ?
SelectEnsureAnyOwner(sid, user) ==
    SetToSeq({[id |-> s.id, agent_name |-> s.agent_name] :
                 s \in {x \in sessions : x.id = sid}})
SelectEnsure(sid, user) ==
    SetToSeq({[id |-> s.id, agent_name |-> s.agent_name] :
                 s \in {x \in sessions : x.id = sid /\ x.username = user}})

\* SELECT agent_name FROM sessions WHERE id = ? AND username = ?
SelectAgentAnyOwner(sid, user) ==
    SetToSeq({[agent_name |-> s.agent_name] : s \in {x \in sessions : x.id = sid}})
SelectAgent(sid, user) ==
    SetToSeq({[agent_name |-> s.agent_name] :
                 s \in {x \in sessions : x.id = sid /\ x.username = user}})

\* SELECT id FROM sessions WHERE id = ? AND username = ?
SelectDeleteAnyOwner(sid, user) ==
    SetToSeq({[id |-> s.id] : s \in {x \in sessions : x.id = sid}})
SelectDelete(sid, user) ==
    SetToSeq({[id |-> s.id] : s \in {x \in sessions : x.id = sid /\ x.username = user}})

\* SELECT message_list FROM messages m JOIN sessions s ON m.session_id = s.id
\*   WHERE s.id = ? AND s.username = ? ORDER BY m.id
JoinAnyOwner(sid, user) ==
    {m \in messages : \E s \in sessions : s.id = m.session_id /\ s.id = sid}
Join(sid, user) ==
    {m \in messages : \E s \in sessions :
        s.id = m.session_id /\ s.id = sid /\ s.username = user}

RECURSIVE SortByIdDesc(_)
SortByIdDesc(rows) ==
    IF rows = {} THEN <<>>
    ELSE LET m == CHOOSE x \in rows : \A y \in rows : x.id >= y.id
         IN <<m>> \o SortByIdDesc(rows \ {m})

OrderByIdDesc(rows) == SortByIdDesc(rows)
OrderById(rows) == SortById(rows)

SelectMessages(sid, user) ==
    OrderById({[id |-> m.id, message_list |-> m.message_list] : m \in Join(sid, user)})

\* the rows a cursor still has to step over when fetchall runs after the tables
\* changed: the row execute() stepped to, then the rows the scan finds now
LazyMessages(cur, sid, user) ==
    IF cur = <<>> THEN <<>>
    ELSE <<Head(cur)>> \o
         OrderById({[id |-> m.id, message_list |-> m.message_list] :
                       m \in {x \in Join(sid, user) : x.id > Head(cur).id}})

\* SELECT id, title, created_at, last_message_at, agent_name FROM sessions
\*   WHERE username = ? ORDER BY last_message_at DESC
\* rows with equal last_message_at come in any order
SessionRow(s) ==
    [id |-> s.id, title |-> s.title, created_at |-> s.created_at,
     last_message_at |-> s.last_message_at, agent_name |-> s.agent_name]

IsPermOf(q, rows) ==
    /\ Len(q) = Cardinality(rows)
    /\ {q[i] : i \in 1..Len(q)} = rows

SelectSessionsAsc(user) ==
    LET rows == {SessionRow(s) : s \in {x \in sessions : x.username = user}}
        n == Cardinality(rows)
    IN {q \in [1..n -> rows] :
          /\ IsPermOf(q, rows)
          /\ \A i \in 1..n : \A j \in 1..n :
                i < j => q[i].last_message_at <= q[j].last_message_at}

SelectSessions(user) ==
    LET rows == {SessionRow(s) : s \in {x \in sessions : x.username = user}}
        n == Cardinality(rows)
    IN {q \in [1..n -> rows] :
          /\ IsPermOf(q, rows)
          /\ \A i \in 1..n : \A j \in 1..n :
                i < j => q[i].last_message_at >= q[j].last_message_at}

\* INSERT INTO sessions (id, title, created_at, last_message_at, agent_name, username)
NewSession(sid, user, agent, t) ==
    [id |-> sid, title |-> <<agent, t>>, created_at |-> t, last_message_at |-> t,
     agent_name |-> agent, username |-> user]

\* id TEXT PRIMARY KEY
PrimaryKeyFreeNoCheck(sid) == TRUE
PrimaryKeyFree(sid) == ~ \E s \in sessions : s.id = sid

\* UPDATE sessions SET last_message_at = ? WHERE id = ?
UpdateLastUpsert(sid, t) ==
    IF \E s \in sessions : s.id = sid
    THEN {IF s.id = sid THEN [s EXCEPT !.last_message_at = t] ELSE s : s \in sessions}
    ELSE sessions \cup {NewSession(sid, "none", "none", t)}
UpdateLast(sid, t) ==
    {IF s.id = sid THEN [s EXCEPT !.last_message_at = t] ELSE s : s \in sessions}

\* INSERT INTO messages (session_id, message_list, created_at); id AUTOINCREMENT
NewMessage(sid, msg, t) ==
    [id |-> seq + 1, session_id |-> sid, message_list |-> msg, created_at |-> t]

Result(ok, val, ss, ms, sq) ==
    [ok |-> ok, val |-> val, sessions |-> ss, messages |-> ms, seq |-> sq]
Unchanged(val) == Result(TRUE, val, sessions, messages, seq)

\* Database._execute / cursor.fetchone / cursor.fetchall / con.commit on the
\* worker thread: the set of outcomes of one step in the current tables
Outcomes(st) ==
    CASE st.sql = "sel_ensure" -> {Unchanged(SelectEnsure(st.sid, st.user))}
      [] st.sql = "sel_agent" -> {Unchanged(SelectAgent(st.sid, st.user))}
      [] st.sql = "sel_delete" -> {Unchanged(SelectDelete(st.sid, st.user))}
      [] st.sql = "sel_messages" -> {Unchanged(SelectMessages(st.sid, st.user))}
      [] st.sql = "sel_sessions" -> {Unchanged(q) : q \in SelectSessions(st.user)}
      [] st.sql = "fetchone" ->
            {Unchanged(IF st.cur = <<>> THEN <<>> ELSE <<Head(st.cur)>>)}
      [] st.sql = "fetchall" -> {Unchanged(st.cur)}
      [] st.sql = "fetchall_messages" ->
            {Unchanged(st.cur), Unchanged(LazyMessages(st.cur, st.sid, st.user))}
      [] st.sql = "ins_session" ->
            IF PrimaryKeyFree(st.sid)
            THEN {Result(TRUE, <<>>,
                         sessions \cup {NewSession(st.sid, st.user, st.agent, st.t)},
                         messages, seq)}
            ELSE {Result(FALSE, <<"IntegrityError">>, sessions, messages, seq)}
      [] st.sql = "ins_message" ->
            {Result(TRUE, <<>>, sessions,
                    messages \cup {NewMessage(st.sid, st.msg, st.t)}, seq + 1)}
      [] st.sql = "upd_last" ->
            {Result(TRUE, <<>>, UpdateLast(st.sid, st.t), messages, seq)}
      [] st.sql = "del_messages" ->
            {Result(TRUE, <<>>, sessions,
                    {m \in messages : m.session_id # st.sid}, seq)}
      [] st.sql = "del_session" ->
            {Result(TRUE, <<>>, {s \in sessions : s.id # st.sid}, messages, seq)}
      [] st.sql = "commit" -> {Unchanged(<<>>)}

IsSelect(sql) == sql \in {"sel_ensure", "sel_agent", "sel_delete", "sel_messages"}

\* ------------------------------------------------------------ the Bridge
Step(r, sql, agent, msg, t, cur) ==
    [req |-> r, sql |-> sql, sid |-> args[r].sid, user |-> args[r].user,
     agent |-> agent, msg |-> msg, t |-> t, cur |-> cur]

\* Database._asyncify: loop.run_in_executor(self._executor, ...)
asyncify(st) ==
    /\ queue' = Append(queue, st)
    /\ inflight' = Append(inflight, st.req)

\* a worker thread of the executor takes the oldest work item
WorkerTake(w) ==
    /\ running[w] = NoStep
    /\ queue # <<>>
    /\ running' = [running EXCEPT ![w] = <<Head(queue)>>]
    /\ queue' = Tail(queue)
    /\ UNCHANGED <<dbVars, ready, now, pc, args, loc, ret, streamVars, addCalls,
                   inflight, seen, wrote, during>>

\* the worker thread runs the work item and sets the future's result, which
\* the loop delivers through call_soon_threadsafe (FIFO)
WorkerRun(w) ==
    /\ running[w] # NoStep
    /\ LET st == running[w][1]
           r == st.req
       IN \E o \in Outcomes(st) :
            /\ sessions' = o.sessions
            /\ messages' = o.messages
            /\ seq' = o.seq
            /\ running' = [running EXCEPT ![w] = NoStep]
            /\ inflight' = Without(inflight, r)
            /\ ready' = IF pc[r] = "cancelled" THEN ready
                        ELSE Append(ready, [req |-> r, ok |-> o.ok, val |-> o.val])
            /\ seen' = IF IsSelect(st.sql)
                       THEN [seen EXCEPT ![r] = Classify(st.sid, st.user)]
                       ELSE seen
            /\ wrote' = IF o.sessions # sessions \/ o.messages # messages
                        THEN [wrote EXCEPT ![r] = @ \cup {st.sql}]
                        ELSE wrote
    /\ UNCHANGED <<queue, now, pc, args, loc, ret, streamVars, addCalls, during>>

\* the work item raises (sqlite3.Error out of cur.execute, fetchone, fetchall or
\* commit): the executor sets the exception on the step's future and the worker
\* thread goes on to the next work item
WorkerFailsAborts(w) ==
    /\ running[w] # NoStep
    /\ running' = [running EXCEPT ![w] = NoStep]
    /\ queue' = <<>>
    /\ inflight' = <<>>
    /\ ready' = Append(ready, [req |-> running[w][1].req, ok |-> FALSE,
                               val |-> <<"OperationalError">>])
    /\ UNCHANGED <<dbVars, now, pc, args, loc, ret, streamVars, addCalls,
                   seen, wrote, during>>

WorkerFails(w) ==
    /\ running[w] # NoStep
    /\ running' = [running EXCEPT ![w] = NoStep]
    /\ inflight' = Without(inflight, running[w][1].req)
    /\ ready' = IF pc[running[w][1].req] = "cancelled" THEN ready
                ELSE Append(ready, [req |-> running[w][1].req, ok |-> FALSE,
                                    val |-> <<"OperationalError">>])
    /\ UNCHANGED <<dbVars, queue, now, pc, args, loc, ret, streamVars, addCalls,
                   seen, wrote, during>>

\* the result the event loop hands to request r next
ResumesUnlessRunning(r, label) ==
    /\ ready # <<>>
    /\ Head(ready).req = r
    /\ pc[r] = label
    /\ \A q \in Requests : pc[q] # "run"

Resumes(r, label) ==
    /\ ready # <<>>
    /\ Head(ready).req = r
    /\ pc[r] = label

Return(r, val) ==
    /\ pc' = [pc EXCEPT ![r] = "done"]
    /\ ret' = [ret EXCEPT ![r] = [kind |-> "return", val |-> val]]

Raise(r, err) ==
    /\ pc' = [pc EXCEPT ![r] = "failed"]
    /\ ret' = [ret EXCEPT ![r] = [kind |-> "raise", val |-> err]]

ReadClock(t) == t \in {now, now + 1} /\ t <= MaxClock /\ now' = t


\* the awaits of db.py that stand outside a try block: the exception of the step
\* raises in the awaiting task and leaves the operation
Unguarded == {"ens_select", "ens_fetch", "add_insert", "add_update", "add_commit",
              "gm_select", "gm_fetch", "ga_select", "ga_fetch", "gs_select",
              "gs_fetch", "del_select", "del_fetch"}

step_raised_swallowed(r) ==
    /\ pc[r] \in Unguarded
    /\ Resumes(r, pc[r])
    /\ ~ Head(ready).ok
    /\ Return(r, <<>>)
    /\ ready' = Tail(ready)
    /\ UNCHANGED <<dbVars, queue, running, inflight, now, args, loc, streamVars,
                   addCalls, seen, wrote, during>>

step_raised(r) ==
    /\ pc[r] \in Unguarded
    /\ Resumes(r, pc[r])
    /\ ~ Head(ready).ok
    /\ Raise(r, Head(ready).val)
    /\ ready' = Tail(ready)
    /\ UNCHANGED <<dbVars, queue, running, inflight, now, args, loc, streamVars,
                   addCalls, seen, wrote, during>>

\* ------------------------------------------------------------- login.py
\* create_access_token(data={"sub": username}): the credential a login hands out
access_token(username) == [kind |-> "jwt", sub |-> username]

\* what a request can carry as its credential: none, one jwt.decode rejects
\* (malformed, bad signature, expired), a token without "sub", a token of a login
Credentials ==
    {[kind |-> "missing", sub |-> "none"], [kind |-> "undecodable", sub |-> "none"],
     access_token("none")} \cup {access_token(u) : u \in Users}

get_current_user_any_sub(token) ==
    IF token.kind = "missing" THEN "NotAuthenticated"
    ELSE IF token.kind = "undecodable" THEN "NotAuthenticated"
    ELSE token.sub

\* if not token: raise; jwt.decode raises InvalidTokenError: raise;
\* payload.get("sub") is None: raise; return token_data.username
get_current_user(token) ==
    IF token.kind = "missing" THEN "NotAuthenticated"
    ELSE IF token.kind = "undecodable" THEN "NotAuthenticated"
    ELSE IF token.sub = "none" THEN "NotAuthenticated"
    ELSE token.sub

\* ----------------------------------------------------- request tasks start
\* requests are numbered in the order in which they start
Begin(r, op, sid, user, agent) ==
    /\ pc[r] = "idle"
    /\ IF r = 1 THEN TRUE ELSE pc[r - 1] # "idle"
    /\ args' = [args EXCEPT ![r] = [op |-> op, sid |-> sid, user |-> user, agent |-> agent,
                                    token |-> access_token(user)]]
    /\ loc' = [loc EXCEPT ![r] = [agent_name |-> agent, history |-> <<>>]]
    /\ during' = [during EXCEPT ![r] = {q \in Requests \ {r} : InFlight(q)}]

StepOf(r, sid, user, sql, agent, msg, t, cur) ==
    [req |-> r, sql |-> sql, sid |-> sid, user |-> user,
     agent |-> agent, msg |-> msg, t |-> t, cur |-> cur]

BridgeIdle == UNCHANGED <<running, ready>>
Consume == ready' = Tail(ready) /\ UNCHANGED running

\* dependencies=[Depends(get_current_user)] raises NotAuthenticatedException:
\* the route function is not called
not_authenticated(r, route, sid, token) ==
    /\ pc[r] = "idle"
    /\ IF r = 1 THEN TRUE ELSE pc[r - 1] # "idle"
    /\ args' = [args EXCEPT ![r] = [op |-> route, sid |-> sid, user |-> "none",
                                    agent |-> "none", token |-> token]]
    /\ Raise(r, <<"NotAuthenticated">>)
    /\ UNCHANGED <<dbVars, bridgeVars, now, loc, streamVars, addCalls, seen, wrote, during>>

\* core.get_agents: return agents_list()
get_agents(r, user) ==
    /\ Begin(r, "get_agents", "none", user, "none")
    /\ Return(r, all_agents)
    /\ UNCHANGED <<dbVars, bridgeVars, now, streamVars, addCalls, seen, wrote>>

\* ------------------------------------------------ Database.add_messages
\* await self._ensure_session_exists(session_id, username, agent_name): the SELECT
add_messages(r, sid, user, agent) ==
    /\ Begin(r, "add_messages", sid, user, agent)
    /\ pc' = [pc EXCEPT ![r] = "ens_select"]
    /\ addCalls' = [addCalls EXCEPT ![r] = @ + 1]
    /\ asyncify(StepOf(r, sid, user, "sel_ensure", agent, <<>>, 0, <<>>))
    /\ BridgeIdle
    /\ UNCHANGED <<dbVars, now, ret, streamVars, seen, wrote>>

\* core.create_new_session: await database._ensure_session_exists(fresh id, ...)
create_new_session(r, sid, user, agent) ==
    /\ \A q \in Requests : args[q].sid # sid
    /\ Begin(r, "create_new_session", sid, user, agent)
    /\ pc' = [pc EXCEPT ![r] = "ens_select"]
    /\ asyncify(StepOf(r, sid, user, "sel_ensure", agent, <<>>, 0, <<>>))
    /\ BridgeIdle
    /\ UNCHANGED <<dbVars, now, ret, streamVars, addCalls, seen, wrote>>

\* the message list a streaming run commits: one message per accepted node
Accepted(ns) == SelectSeq(ns, LAMBDA k : k \in {"model_request", "call_tools"})
new_messages(r) == [i \in 1..Len(Accepted(nodes[r])) |-> <<r, i>>]

MessagesOf(r) == IF args[r].op = "post_chat" THEN new_messages(r) ELSE Payload(r)

\* _ensure_session_exists: row = await self._asyncify(c.fetchone)
ensure_fetchone(r) ==
    /\ Resumes(r, "ens_select")
    /\ Head(ready).ok
    /\ pc' = [pc EXCEPT ![r] = "ens_fetch"]
    /\ asyncify(Step(r, "fetchone", loc[r].agent_name, <<>>, 0, Head(ready).val))
    /\ Consume
    /\ UNCHANGED <<dbVars, now, args, loc, ret, streamVars, addCalls, seen, wrote, during>>

\* what follows _ensure_session_exists in its caller
AfterEnsure(r) ==
    IF args[r].op = "create_new_session"
    THEN /\ Return(r, <<args[r].sid, args[r].agent>>)
         /\ UNCHANGED <<queue, inflight, now>>
    ELSE \E t \in 0..MaxClock :
            /\ ReadClock(t)
            /\ pc' = [pc EXCEPT ![r] = "add_insert"]
            /\ asyncify(Step(r, "ins_message", loc[r].agent_name, MessagesOf(r), t, <<>>))
            /\ UNCHANGED ret

\* _ensure_session_exists: if not row: INSERT INTO sessions
ensure_row(r) ==
    /\ Resumes(r, "ens_fetch")
    /\ Head(ready).ok
    /\ IF Head(ready).val = <<>>
       THEN \E t \in 0..MaxClock :
               /\ ReadClock(t)
               /\ pc' = [pc EXCEPT ![r] = "ens_insert"]
               /\ asyncify(Step(r, "ins_session", loc[r].agent_name, <<>>, t, <<>>))
               /\ UNCHANGED ret
       ELSE AfterEnsure(r)
    /\ Consume
    /\ UNCHANGED <<dbVars, args, loc, streamVars, addCalls, seen, wrote, during>>

\* the INSERT has run; its IntegrityError (id is PRIMARY KEY) raises in the caller
ensure_inserted(r) ==
    /\ Resumes(r, "ens_insert")
    /\ IF Head(ready).ok
       THEN AfterEnsure(r)
       ELSE /\ Raise(r, Head(ready).val)
            /\ UNCHANGED <<queue, inflight, now>>
    /\ Consume
    /\ UNCHANGED <<dbVars, args, loc, streamVars, addCalls, seen, wrote, during>>

\* add_messages: UPDATE sessions SET last_message_at
add_update(r) ==
    /\ Resumes(r, "add_insert")
    /\ Head(ready).ok
    /\ \E t \in 0..MaxClock :
          /\ ReadClock(t)
          /\ asyncify(Step(r, "upd_last", loc[r].agent_name, <<>>, t, <<>>))
    /\ pc' = [pc EXCEPT ![r] = "add_update"]
    /\ Consume
    /\ UNCHANGED <<dbVars, args, loc, ret, streamVars, addCalls, seen, wrote, during>>

\* add_messages: await self._asyncify(self.con.commit)
add_commit(r) ==
    /\ Resumes(r, "add_update")
    /\ Head(ready).ok
    /\ asyncify(Step(r, "commit", loc[r].agent_name, <<>>, 0, <<>>))
    /\ pc' = [pc EXCEPT ![r] = "add_commit"]
    /\ Consume
    /\ UNCHANGED <<dbVars, now, args, loc, ret, streamVars, addCalls, seen, wrote, during>>

add_done(r) ==
    /\ Resumes(r, "add_commit")
    /\ Head(ready).ok
    /\ Return(r, <<>>)
    /\ Consume
    /\ UNCHANGED <<dbVars, queue, inflight, now, args, loc, streamVars, addCalls,
                   seen, wrote, during>>

\* ------------------------------------------------ Database.get_messages
get_messages(r, sid, user) ==
    /\ Begin(r, "get_messages", sid, user, "none")
    /\ pc' = [pc EXCEPT ![r] = "gm_select"]
    /\ asyncify(StepOf(r, sid, user, "sel_messages", "none", <<>>, 0, <<>>))
    /\ BridgeIdle
    /\ UNCHANGED <<dbVars, now, ret, streamVars, addCalls, seen, wrote>>

\* rows = await self._asyncify(c.fetchall)
get_messages_fetchall(r) ==
    /\ Resumes(r, "gm_select")
    /\ Head(ready).ok
    /\ pc' = [pc EXCEPT ![r] = "gm_fetch"]
    /\ asyncify(Step(r, "fetchall_messages", loc[r].agent_name, <<>>, 0, Head(ready).val))
    /\ Consume
    /\ UNCHANGED <<dbVars, now, args, loc, ret, streamVars, addCalls, seen, wrote, during>>

\* for row in rows: messages.extend(ModelMessagesTypeAdapter.validate_json(row[0]))
Extend(rows) == Flatten([i \in 1..Len(rows) |-> rows[i].message_list])

\* get_messages returns; in post_chat the agent run starts with the history
get_messages_return(r) ==
    /\ Resumes(r, "gm_fetch")
    /\ Head(ready).ok
    /\ IF args[r].op = "post_chat"
       THEN /\ pc' = [pc EXCEPT ![r] = "run"]
            /\ loc' = [loc EXCEPT ![r].history = Extend(Head(ready).val)]
            /\ UNCHANGED ret
       ELSE /\ Return(r, Extend(Head(ready).val))
            /\ UNCHANGED loc
    /\ Consume
    /\ UNCHANGED <<dbVars, queue, inflight, now, args, streamVars, addCalls,
                   seen, wrote, during>>

\* --------------------------------------------- Database.get_session_agent
get_session_agent(r, sid, user) ==
    /\ Begin(r, "get_session_agent", sid, user, "none")
    /\ pc' = [pc EXCEPT ![r] = "ga_select"]
    /\ asyncify(StepOf(r, sid, user, "sel_agent", "none", <<>>, 0, <<>>))
    /\ BridgeIdle
    /\ UNCHANGED <<dbVars, now, ret, streamVars, addCalls, seen, wrote>>

get_session_agent_fetchone(r) ==
    /\ Resumes(r, "ga_select")
    /\ Head(ready).ok
    /\ pc' = [pc EXCEPT ![r] = "ga_fetch"]
    /\ asyncify(Step(r, "fetchone", loc[r].agent_name, <<>>, 0, Head(ready).val))
    /\ Consume
    /\ UNCHANGED <<dbVars, now, args, loc, ret, streamVars, addCalls, seen, wrote, during>>

\* agents.get_agent: all_agents[agent_name]
get_agent(agent_name) == agent_name \in all_agents

\* if not row: raise ValueError; return row[0].  In post_chat: get_agent, then
\* messages = await database.get_messages(session_id, user)
get_session_agent_return(r) ==
    /\ Resumes(r, "ga_fetch")
    /\ Head(ready).ok
    /\ LET row == Head(ready).val
       IN IF row = <<>>
          THEN /\ Raise(r, <<"ValueError">>)
               /\ UNCHANGED <<queue, inflight, loc>>
          ELSE IF args[r].op # "post_chat"
          THEN /\ Return(r, row[1].agent_name)
               /\ UNCHANGED <<queue, inflight, loc>>
          ELSE IF ~ get_agent(row[1].agent_name)
          THEN /\ Raise(r, <<"KeyError">>)
               /\ UNCHANGED <<queue, inflight, loc>>
          ELSE /\ pc' = [pc EXCEPT ![r] = "gm_select"]
               /\ loc' = [loc EXCEPT ![r].agent_name = row[1].agent_name]
               /\ asyncify(Step(r, "sel_messages", row[1].agent_name, <<>>, 0, <<>>))
               /\ UNCHANGED ret
    /\ Consume
    /\ UNCHANGED <<dbVars, now, args, streamVars, addCalls, seen, wrote, during>>

\* ------------------------------------------------- Database.get_sessions
get_sessions(r, user) ==
    /\ Begin(r, "get_sessions", "none", user, "none")
    /\ pc' = [pc EXCEPT ![r] = "gs_select"]
    /\ asyncify(StepOf(r, "none", user, "sel_sessions", "none", <<>>, 0, <<>>))
    /\ BridgeIdle
    /\ UNCHANGED <<dbVars, now, ret, streamVars, addCalls, seen, wrote>>

get_sessions_fetchall(r) ==
    /\ Resumes(r, "gs_select")
    /\ Head(ready).ok
    /\ pc' = [pc EXCEPT ![r] = "gs_fetch"]
    /\ asyncify(Step(r, "fetchall", loc[r].agent_name, <<>>, 0, Head(ready).val))
    /\ Consume
    /\ UNCHANGED <<dbVars, now, args, loc, ret, streamVars, addCalls, seen, wrote, during>>

get_sessions_return(r) ==
    /\ Resumes(r, "gs_fetch")
    /\ Head(ready).ok
    /\ Return(r, Head(ready).val)
    /\ Consume
    /\ UNCHANGED <<dbVars, queue, inflight, now, args, loc, streamVars, addCalls,
                   seen, wrote, during>>

\* ------------------------------------------------ Database.delete_session
delete_session(r, sid, user) ==
    /\ Begin(r, "delete_session", sid, user, "none")
    /\ pc' = [pc EXCEPT ![r] = "del_select"]
    /\ asyncify(StepOf(r, sid, user, "sel_delete", "none", <<>>, 0, <<>>))
    /\ BridgeIdle
    /\ UNCHANGED <<dbVars, now, ret, streamVars, addCalls, seen, wrote>>

delete_session_fetchone(r) ==
    /\ Resumes(r, "del_select")
    /\ Head(ready).ok
    /\ pc' = [pc EXCEPT ![r] = "del_fetch"]
    /\ asyncify(Step(r, "fetchone", loc[r].agent_name, <<>>, 0, Head(ready).val))
    /\ Consume
    /\ UNCHANGED <<dbVars, now, args, loc, ret, streamVars, addCalls, seen, wrote, during>>

\* if not await self._asyncify(c.fetchone): return False; else DELETE FROM messages
delete_session_checked(r) ==
    /\ Resumes(r, "del_fetch")
    /\ Head(ready).ok
    /\ IF Head(ready).val = <<>>
       THEN /\ Return(r, FALSE)
            /\ UNCHANGED <<queue, inflight>>
       ELSE /\ pc' = [pc EXCEPT ![r] = "del_msgs"]
            /\ asyncify(Step(r, "del_messages", loc[r].agent_name, <<>>, 0, <<>>))
            /\ UNCHANGED ret
    /\ Consume
    /\ UNCHANGED <<dbVars, now, args, loc, streamVars, addCalls, seen, wrote, during>>

\* DELETE FROM sessions WHERE id = ?; except Exception: return False
delete_session_messages_deleted(r) ==
    /\ Resumes(r, "del_msgs")
    /\ IF Head(ready).ok
       THEN /\ pc' = [pc EXCEPT ![r] = "del_sess"]
            /\ asyncify(Step(r, "del_session", loc[r].agent_name, <<>>, 0, <<>>))
            /\ UNCHANGED ret
       ELSE /\ Return(r, FALSE)
            /\ UNCHANGED <<queue, inflight>>
    /\ Consume
    /\ UNCHANGED <<dbVars, now, args, loc, streamVars, addCalls, seen, wrote, during>>

\* return True; except Exception: return False
delete_session_return(r) ==
    /\ Resumes(r, "del_sess")
    /\ Return(r, Head(ready).ok)
    /\ Consume
    /\ UNCHANGED <<dbVars, queue, inflight, now, args, loc, streamVars, addCalls,
                   seen, wrote, during>>


\* ------------------------------------------- core.post_chat.stream_messages
Chunk(kind, n, nl) == [kind |-> kind, n |-> n, nl |-> nl]

\* yield (prompt.encode("utf-8") + b"\n")
post_chat(r, sid, user) ==
    /\ Cardinality({q \in Requests : args[q].op = "post_chat"}) < MaxRuns
    /\ Begin(r, "post_chat", sid, user, "none")
    /\ pc' = [pc EXCEPT ![r] = "prompt"]
    /\ out' = [out EXCEPT ![r] = <<Chunk("prompt", 0, TRUE)>>]
    /\ UNCHANGED <<dbVars, bridgeVars, now, ret, nodes, addCalls, seen, wrote>>

\* agent_name = await database.get_session_agent(session_id, user)
stream_get_session_agent(r) ==
    /\ pc[r] = "prompt"
    /\ pc' = [pc EXCEPT ![r] = "ga_select"]
    /\ asyncify(Step(r, "sel_agent", "none", <<>>, 0, <<>>))
    /\ BridgeIdle
    /\ UNCHANGED <<dbVars, now, args, loc, ret, streamVars, addCalls, seen, wrote, during>>

\* async for node in agent_run: the agent engine produces the next node
Emits(r) == pc[r] = "run" /\ Len(nodes[r]) < MaxNodes

Emitted(r, kind) == nodes' = [nodes EXCEPT ![r] = Append(@, kind)]

\* if Agent.is_user_prompt_node(node): pass
node_user_prompt(r) ==
    /\ Emits(r)
    /\ Emitted(r, "user_prompt")
    /\ UNCHANGED <<dbVars, bridgeVars, now, pc, args, loc, ret, out, addCalls,
                   seen, wrote, during>>

\* elif Agent.is_model_request_node(node): yield NodeAdapter.dump_json(node.request)
node_model_request(r) ==
    /\ Emits(r)
    /\ Emitted(r, "model_request")
    /\ out' = [out EXCEPT ![r] = Append(@, Chunk("request", Len(nodes[r]) + 1, FALSE))]
    /\ UNCHANGED <<dbVars, bridgeVars, now, pc, args, loc, ret, addCalls,
                   seen, wrote, during>>

node_call_tools_commits(r) ==
    /\ Emits(r)
    /\ Emitted(r, "call_tools")
    /\ out' = [out EXCEPT ![r] = Append(@, Chunk("response", Len(nodes[r]) + 1, FALSE))]
    /\ addCalls' = [addCalls EXCEPT ![r] = @ + 1]
    /\ UNCHANGED <<dbVars, bridgeVars, now, pc, args, loc, ret, seen, wrote, during>>

\* elif Agent.is_call_tools_node(node): yield NodeAdapter.dump_json(node.model_response)
node_call_tools(r) ==
    /\ Emits(r)
    /\ Emitted(r, "call_tools")
    /\ out' = [out EXCEPT ![r] = Append(@, Chunk("response", Len(nodes[r]) + 1, FALSE))]
    /\ UNCHANGED <<dbVars, bridgeVars, now, pc, args, loc, ret, addCalls,
                   seen, wrote, during>>

\* elif Agent.is_end_node(node): pass; the iteration is over and
\* await database.add_messages(session_id, agent_run.result.new_messages_json(), user, agent_name)
node_end(r) ==
    /\ Emits(r)
    /\ Emitted(r, "end")
    /\ pc' = [pc EXCEPT ![r] = "ens_select"]
    /\ addCalls' = [addCalls EXCEPT ![r] = @ + 1]
    /\ asyncify(Step(r, "sel_ensure", loc[r].agent_name, <<>>, 0, <<>>))
    /\ BridgeIdle
    /\ UNCHANGED <<dbVars, now, args, loc, ret, out, seen, wrote, during>>

node_other_skipped(r) ==
    /\ Emits(r)
    /\ Emitted(r, "other")
    /\ UNCHANGED <<dbVars, bridgeVars, now, pc, args, loc, ret, out, addCalls,
                   seen, wrote, during>>

\* else: raise UnexpectedModelBehavior
node_other(r) ==
    /\ Emits(r)
    /\ Emitted(r, "other")
    /\ Raise(r, <<"UnexpectedModelBehavior">>)
    /\ UNCHANGED <<dbVars, bridgeVars, now, args, loc, out, addCalls, seen, wrote, during>>

disconnect_commits(r) ==
    /\ args[r].op = "post_chat"
    /\ InFlight(r)
    /\ pc' = [pc EXCEPT ![r] = "cancelled"]
    /\ addCalls' = [addCalls EXCEPT ![r] = @ + 1]
    /\ queue' = Append(WithoutReq(queue, r),
                       Step(r, "ins_message", loc[r].agent_name, new_messages(r), now, <<>>))
    /\ ready' = WithoutReq(ready, r)
    /\ inflight' = IF \E w \in Workers : running[w] # NoStep /\ running[w][1].req = r
                   THEN inflight ELSE Append(Without(inflight, r), r)
    /\ UNCHANGED <<dbVars, running, now, args, loc, ret, streamVars, seen, wrote, during>>

\* the client disconnects: the streaming task is cancelled where it is suspended;
\* a step of it that no worker has taken yet is cancelled with it
disconnect(r) ==
    /\ args[r].op = "post_chat"
    /\ InFlight(r)
    /\ pc' = [pc EXCEPT ![r] = "cancelled"]
    /\ queue' = WithoutReq(queue, r)
    /\ ready' = WithoutReq(ready, r)
    /\ inflight' = IF \E i \in 1..Len(queue) : queue[i].req = r
                   THEN Without(inflight, r) ELSE inflight
    /\ UNCHANGED <<dbVars, running, now, args, loc, ret, streamVars, addCalls,
                   seen, wrote, during>>

\* ------------------------------------------------------------ the system
\* Database.connect opens the file of earlier runs (CREATE TABLE IF NOT EXISTS):
\* the tables are empty, or hold what an earlier add_messages("s1", ..., "alice",
\* "search_bot") left there
StoredSession == NewSession("s1", "alice", "search_bot", 0)
StoredMessage == [id |-> 1, session_id |-> "s1", message_list |-> Payload(0), created_at |-> 0]

Init ==
    /\ \/ sessions = {} /\ messages = {} /\ seq = 0
       \/ sessions = {StoredSession} /\ messages = {StoredMessage} /\ seq = 1
    /\ queue = <<>>
    /\ running = [w \in Workers |-> NoStep]
    /\ ready = <<>>
    /\ now = 0
    /\ pc = [r \in Requests |-> "idle"]
    /\ args = [r \in Requests |-> NoArgs]
    /\ loc = [r \in Requests |-> NoLoc]
    /\ ret = [r \in Requests |-> NoRet]
    /\ out = [r \in Requests |-> <<>>]
    /\ nodes = [r \in Requests |-> <<>>]
    /\ addCalls = [r \in Requests |-> 0]
    /\ inflight = <<>>
    /\ seen = [r \in Requests |-> "none"]
    /\ wrote = [r \in Requests |-> {}]
    /\ during = [r \in Requests |-> {}]

Bridge ==
    \/ \E w \in Workers : WorkerTake(w)
    \/ \E w \in Workers : WorkerRun(w)

EnsureSteps ==
    \/ \E r \in Requests : ensure_fetchone(r)
    \/ \E r \in Requests : ensure_row(r)
    \/ \E r \in Requests : ensure_inserted(r)

AddSteps ==
    \/ \E r \in Requests : add_update(r)
    \/ \E r \in Requests : add_commit(r)
    \/ \E r \in Requests : add_done(r)

ReadSteps ==
    \/ \E r \in Requests : get_messages_fetchall(r)
    \/ \E r \in Requests : get_messages_return(r)

AgentSteps ==
    \/ \E r \in Requests : get_session_agent_fetchone(r)
    \/ \E r \in Requests : get_session_agent_return(r)

ListSteps ==
    \/ \E r \in Requests : get_sessions_fetchall(r)
    \/ \E r \in Requests : get_sessions_return(r)

DeleteSteps ==
    \/ \E r \in Requests : delete_session_fetchone(r)
    \/ \E r \in Requests : delete_session_checked(r)
    \/ \E r \in Requests : delete_session_messages_deleted(r)
    \/ \E r \in Requests : delete_session_return(r)

Quiescent == \A q \in Requests : ~ InFlight(q)

\* callers of the Database API, overlapping
Next ==
    \/ Bridge
    \/ EnsureSteps
    \/ AddSteps
    \/ ReadSteps
    \/ AgentSteps
    \/ DeleteSteps
    \/ \E r \in ConcRequests, sid \in SessionIds, user \in Users, agent \in AgentNames :
          add_messages(r, sid, user, agent)
    \/ \E r \in ConcRequests, sid \in FreshIds, user \in Users, agent \in AgentNames :
          create_new_session(r, sid, user, agent)
    \/ \E r \in ConcRequests, sid \in SessionIds, user \in Users : get_messages(r, sid, user)
    \/ \E r \in ConcRequests, sid \in SessionIds, user \in Users : get_session_agent(r, sid, user)
    \/ \E r \in ConcRequests, user \in Users : get_sessions(r, user)
    \/ \E r \in ConcRequests, sid \in SessionIds, user \in Users : delete_session(r, sid, user)
    \/ ListSteps

Spec == Init /\ [][Next]_vars

\* callers of the Database API, each call completed before the next starts
NextSeq ==
    \/ Bridge
    \/ EnsureSteps
    \/ AddSteps
    \/ ReadSteps
    \/ DeleteSteps
    \/ \E r \in SeqRequests, sid \in SessionIds, user \in Users, agent \in AgentNames :
          Quiescent /\ add_messages(r, sid, user, agent)
    \/ \E r \in SeqRequests, sid \in SessionIds, user \in Users :
          Quiescent /\ get_messages(r, sid, user)
    \/ \E r \in SeqRequests, sid \in SessionIds, user \in Users :
          Quiescent /\ delete_session(r, sid, user)

SpecSeq == Init /\ [][NextSeq]_vars

\* callers of the Database API, overlapping, on a storage engine whose steps can fail
NextFault ==
    \/ Bridge
    \/ \E w \in Workers : WorkerFails(w)
    \/ \E r \in Requests : step_raised(r)
    \/ EnsureSteps
    \/ AddSteps
    \/ ReadSteps
    \/ AgentSteps
    \/ ListSteps
    \/ DeleteSteps
    \/ \E r \in ConcRequests, sid \in SessionIds, user \in Users, agent \in AgentNames :
          add_messages(r, sid, user, agent)
    \/ \E r \in ConcRequests, sid \in SessionIds, user \in Users : get_messages(r, sid, user)
    \/ \E r \in ConcRequests, sid \in SessionIds, user \in Users : get_session_agent(r, sid, user)
    \/ \E r \in ConcRequests, user \in Users : get_sessions(r, user)
    \/ \E r \in ConcRequests, sid \in SessionIds, user \in Users : delete_session(r, sid, user)

SpecFault == Init /\ [][NextFault]_vars

\* the identifiers a client can send: the ones it holds from earlier runs and the
\* ones a create_new_session has returned
Known(sid) ==
    \/ sid \in SessionIds
    \/ \E q \in Requests :
          args[q].op = "create_new_session" /\ args[q].sid = sid /\ pc[q] = "done"

\* sessions created, appended to, deleted and listed, each call completed before
\* the next starts
NextList ==
    \/ Bridge
    \/ EnsureSteps
    \/ AddSteps
    \/ ListSteps
    \/ DeleteSteps
    \/ \E r \in SeqRequests, sid \in FreshIds, user \in Users, agent \in AgentNames :
          Quiescent /\ create_new_session(r, sid, user, agent)
    \/ \E r \in SeqRequests, sid \in SessionIds \cup FreshIds, user \in Users, agent \in AgentNames :
          Quiescent /\ Known(sid) /\ add_messages(r, sid, user, agent)
    \/ \E r \in SeqRequests, sid \in SessionIds, user \in Users :
          Quiescent /\ delete_session(r, sid, user)
    \/ \E r \in SeqRequests, user \in Users : Quiescent /\ get_sessions(r, user)

SpecList == Init /\ [][NextList]_vars

\* request r starts while an earlier one is running only if it is one of the
\* first MaxConc requests
MayStart(r) == Quiescent \/ r \in ConcRequests

\* appends, deletes and reads of one identifier by its owner and by another
\* identity: the first MaxConc calls overlap, the later ones run one at a time
NextOwn ==
    \/ Bridge
    \/ EnsureSteps
    \/ AddSteps
    \/ ReadSteps
    \/ DeleteSteps
    \/ \E r \in Requests, sid \in SessionIds, user \in Users :
          MayStart(r) /\ add_messages(r, sid, user, "search_bot")
    \/ \E r \in Requests, sid \in SessionIds, user \in Users :
          MayStart(r) /\ get_messages(r, sid, user)
    \/ \E r \in Requests, sid \in SessionIds, user \in Users :
          MayStart(r) /\ delete_session(r, sid, user)

SpecOwn == Init /\ [][NextOwn]_vars

\* streaming runs next to other requests; the thread of the executor and the
\* event loop each keep running what is ready for them, the agent engine may
\* never produce its next node
Loop ==
    \/ EnsureSteps
    \/ AddSteps
    \/ ReadSteps
    \/ AgentSteps
    \/ DeleteSteps
    \/ \E r \in Requests : stream_get_session_agent(r)

Engine ==
    \/ \E r \in Requests : node_user_prompt(r)
    \/ \E r \in Requests : node_model_request(r)
    \/ \E r \in Requests : node_call_tools(r)
    \/ \E r \in Requests : node_end(r)
    \/ \E r \in Requests : node_other(r)

NextLive ==
    \/ Bridge
    \/ Loop
    \/ Engine
    \/ \E r \in ConcRequests, sid \in SessionIds, user \in Users : get_messages(r, sid, user)
    \/ \E r \in ConcRequests, sid \in SessionIds, user \in Users : delete_session(r, sid, user)
    \/ \E r \in ConcRequests, sid \in SessionIds, user \in Users : post_chat(r, sid, user)

SpecLive == Init /\ [][NextLive]_vars /\ WF_vars(Bridge) /\ WF_vars(Loop)

\* the routes of core.py behind the router's dependency on get_current_user
Routes == {"get_messages", "get_agents", "get_sessions", "create_new_session",
           "delete_session", "post_chat"}
Authenticated(token) == get_current_user(token) # "NotAuthenticated"

NextAuth ==
    \/ Bridge
    \/ EnsureSteps
    \/ AddSteps
    \/ ReadSteps
    \/ AgentSteps
    \/ ListSteps
    \/ DeleteSteps
    \/ \E r \in ConcRequests, route \in Routes, sid \in SessionIds, token \in Credentials :
          ~ Authenticated(token) /\ not_authenticated(r, route, sid, token)
    \/ \E r \in ConcRequests, sid \in SessionIds, token \in Credentials :
          Authenticated(token) /\ get_messages(r, sid, get_current_user(token))
    \/ \E r \in ConcRequests, token \in Credentials :
          Authenticated(token) /\ get_agents(r, get_current_user(token))
    \/ \E r \in ConcRequests, token \in Credentials :
          Authenticated(token) /\ get_sessions(r, get_current_user(token))
    \/ \E r \in ConcRequests, sid \in FreshIds, token \in Credentials, agent \in AgentNames :
          Authenticated(token) /\ create_new_session(r, sid, get_current_user(token), agent)
    \/ \E r \in ConcRequests, sid \in SessionIds, token \in Credentials :
          Authenticated(token) /\ delete_session(r, sid, get_current_user(token))
    \/ \E r \in ConcRequests, sid \in SessionIds, token \in Credentials :
          Authenticated(token) /\ post_chat(r, sid, get_current_user(token))
    \/ \E r \in Requests : stream_get_session_agent(r)
    \/ \E r \in Requests : node_user_prompt(r)
    \/ \E r \in Requests : node_model_request(r)
    \/ \E r \in Requests : node_call_tools(r)
    \/ \E r \in Requests : node_end(r)
    \/ \E r \in Requests : node_other(r)

SpecAuth == Init /\ [][NextAuth]_vars

\* the routes of core.py, overlapping
NextStream ==
    \/ Bridge
    \/ EnsureSteps
    \/ AddSteps
    \/ ReadSteps
    \/ AgentSteps
    \/ DeleteSteps
    \/ \E r \in ConcRequests, sid \in FreshIds, user \in Users,
             agent \in AgentNames \cup Unregistered :
          create_new_session(r, sid, user, agent)
    \/ \E r \in ConcRequests, sid \in SessionIds, user \in Users : get_messages(r, sid, user)
    \/ \E r \in ConcRequests, sid \in SessionIds, user \in Users : delete_session(r, sid, user)
    \/ \E r \in ConcRequests, sid \in SessionIds \cup FreshIds, user \in Users :
          Known(sid) /\ post_chat(r, sid, user)
    \/ \E r \in Requests : stream_get_session_agent(r)
    \/ \E r \in Requests : node_user_prompt(r)
    \/ \E r \in Requests : node_model_request(r)
    \/ \E r \in Requests : node_call_tools(r)
    \/ \E r \in Requests : node_end(r)
    \/ \E r \in Requests : node_other(r)
    \/ \E r \in Requests : disconnect(r)

SpecStream == Init /\ [][NextStream]_vars


\* ================================================================ claims
Executed(w) == running[w] # NoStep /\ running'[w] = NoStep
SessionRowsOf(sid) == {s \in sessions : s.id = sid}
TurnRowsOf(sid) == {m \in messages : m.session_id = sid}

\* C1: every step that runs is the oldest step submitted and not yet finished
\* (steps run in submission order), and at no time do two steps run at once.
C1_SerialInOrder ==
    [][ /\ \A w \in Workers : Executed(w) => running[w][1].req = Head(inflight)
        /\ Cardinality({w \in Workers : running'[w] # NoStep}) <= 1 ]_vars

\* a step runs while a step of another request, submitted later, waits
C1_Witness ==
    \E w \in Workers :
        /\ running[w] # NoStep
        /\ queue # <<>>
        /\ Head(queue).req # running[w][1].req

SameTarget(a, b) == args[a].sid = args[b].sid /\ args[a].user = args[b].user

\* C2: two add_messages calls of one owner on one session (not a session of
\* another owner) that overlap, A started first, both complete, and the transcript
\* holds A's payload before B's.
C2_ConcurrentAppendsInOrder ==
    \A a \in Requests : \A b \in Requests :
        ( /\ a < b
          /\ args[a].op = "add_messages" /\ args[b].op = "add_messages"
          /\ SameTarget(a, b)
          /\ a \in during[b]
          /\ pc[a] \in Final /\ pc[b] \in Final
          /\ seen[a] # "foreign" /\ seen[b] # "foreign"
          /\ \A q \in Requests : args[q].op # "delete_session" )
        => /\ pc[a] = "done" /\ pc[b] = "done"
           /\ \E i \in 1..Len(SelectMessages(args[a].sid, args[a].user)) :
              \E j \in 1..Len(SelectMessages(args[a].sid, args[a].user)) :
                 /\ i < j
                 /\ SelectMessages(args[a].sid, args[a].user)[i].message_list = Payload(a)
                 /\ SelectMessages(args[a].sid, args[a].user)[j].message_list = Payload(b)

\* C3: after N add_messages calls of one owner on one session, one after the
\* other, get_messages returns the payloads concatenated in call order (after
\* what the session held before).
C3_TranscriptInCallOrder ==
    \A g \in Requests :
        ( /\ args[g].op = "get_messages" /\ pc[g] = "done"
          /\ \A r \in 1..(g - 1) :
                args[r].op = "add_messages" /\ SameTarget(r, g) /\ pc[r] = "done"
          /\ \A q \in Requests : q > g => pc[q] = "idle" )
        => ret[g].val =
              (IF StoredMessage \in messages /\ args[g].sid = StoredSession.id
                     /\ args[g].user = StoredSession.username
               THEN Payload(0) ELSE <<>>)
              \o Flatten([r \in 1..(g - 1) |-> Payload(r)])

\* get_messages has returned after two add_messages calls on the session
C3_Witness ==
    \E g \in Requests :
        /\ g >= 3
        /\ args[g].op = "get_messages" /\ pc[g] = "done"
        /\ \A r \in 1..(g - 1) :
              args[r].op = "add_messages" /\ SameTarget(r, g) /\ pc[r] = "done"
        /\ Len(ret[g].val) >= 2 * Len(Payload(1))

\* C4: a session row appears only by the INSERT of an _ensure_session_exists
\* whose SELECT found none, carrying that call's agent name and owner; while the
\* row exists no step changes its agent name or owner; no identifier has two
\* rows; an add_messages that found no row for the identifier and completed has
\* inserted the row.
C4_SessionRowStable ==
    [][ /\ \A s \in sessions : \A s2 \in sessions' :
              s.id = s2.id => s2.agent_name = s.agent_name /\ s2.username = s.username
        /\ \A s2 \in sessions' :
              (~ \E s \in sessions : s.id = s2.id) =>
                 /\ sessions' = sessions \cup {s2}
                 /\ \E w \in Workers :
                       /\ Executed(w)
                       /\ running[w][1].sql = "ins_session"
                       /\ s2.id = args[running[w][1].req].sid
                       /\ s2.agent_name = args[running[w][1].req].agent
                       /\ s2.username = args[running[w][1].req].user
        /\ \A s \in sessions' : \A s2 \in sessions' : s.id = s2.id => s = s2
        /\ \A r \in Requests :
              (args'[r].op = "add_messages" /\ pc'[r] = "done" /\ seen'[r] = "absent")
                 => "ins_session" \in wrote'[r] ]_vars

\* an add_messages with another agent name than the session's has completed
C4_Witness ==
    \E r \in Requests : \E s \in sessions :
        /\ args[r].op = "add_messages" /\ pc[r] = "done"
        /\ s.id = args[r].sid /\ s.username = args[r].user
        /\ s.agent_name # args[r].agent

\* C5: delete_session by the owner of an existing session returns true, and when
\* it returns the session has no session row and no turn row.
C5_DeleteRemovesAll ==
    [][ \A r \in Requests :
          (args[r].op = "delete_session" /\ seen[r] = "own"
             /\ pc[r] # "done" /\ pc'[r] = "done")
          => /\ ret'[r].val = TRUE
             /\ SessionRowsOf(args[r].sid)' = {}
             /\ TurnRowsOf(args[r].sid)' = {} ]_vars

\* C6: delete_session on an identifier that has no session row, or a row of
\* another owner, returns false and none of its steps changes a row.
C6_DeleteDenied ==
    \A r \in Requests :
        (args[r].op = "delete_session" /\ seen[r] \in {"absent", "foreign"})
        => /\ wrote[r] = {}
           /\ pc[r] \notin {"del_msgs", "del_sess", "failed"}
           /\ pc[r] = "done" => ret[r].val = FALSE

\* delete_session by another identity has returned and the rows are still there
C6_Witness ==
    \E r \in Requests :
        /\ args[r].op = "delete_session" /\ pc[r] = "done" /\ seen[r] = "foreign"
        /\ SessionRowsOf(args[r].sid) # {}
        /\ TurnRowsOf(args[r].sid) # {}

\* C7: get_messages returns the empty list, and raises nothing, when no session
\* row of that identifier and owner exists.
C7_ForeignTranscriptEmpty ==
    \A r \in Requests :
        (args[r].op = "get_messages" /\ seen[r] \in {"absent", "foreign"})
        => /\ pc[r] # "failed"
           /\ pc[r] = "done" => ret[r].val = <<>>

\* get_messages by another identity has returned on a session that has turns
C7_Witness ==
    \E r \in Requests :
        /\ args[r].op = "get_messages" /\ pc[r] = "done" /\ seen[r] = "foreign"
        /\ TurnRowsOf(args[r].sid) # {}


\* the chunks a run has to have flushed once the agent has emitted the nodes ns
RECURSIVE Events(_, _)
Events(ns, i) ==
    IF i > Len(ns) THEN <<>>
    ELSE (IF ns[i] = "model_request" THEN <<Chunk("request", i, FALSE)>>
          ELSE IF ns[i] = "call_tools" THEN <<Chunk("response", i, FALSE)>>
          ELSE <<>>) \o Events(ns, i + 1)

ExpectedOut(ns) == <<Chunk("prompt", 0, TRUE)>> \o Events(ns, 1)

Has(ns, kind) == \E i \in 1..Len(ns) : ns[i] = kind

IsRun(r) == args[r].op = "post_chat"

\* C8: a streaming run has flushed the prompt chunk, then one event per accepted
\* node in emission order; add_messages is called once, when the completion node
\* has come (after the last event), and not before or per event.
C8_StreamThenOneCommit ==
    \A r \in Requests :
        IsRun(r) =>
           /\ out[r] = ExpectedOut(nodes[r])
           /\ addCalls[r] = (IF Has(nodes[r], "end") THEN 1 ELSE 0)
           /\ Has(nodes[r], "end") => nodes[r][Len(nodes[r])] = "end"
           /\ pc[r] = "done" => Has(nodes[r], "end") /\ "ins_message" \in wrote[r]

\* a run with two accepted nodes has completed
C8_Witness ==
    \E r \in Requests :
        /\ IsRun(r) /\ pc[r] = "done"
        /\ Len(Accepted(nodes[r])) = 2
        /\ Has(nodes[r], "model_request") /\ Has(nodes[r], "call_tools")
        /\ addCalls[r] = 1

\* C9: a node of no known kind ends the run there: nothing is flushed after it,
\* add_messages is not called and no step of the run has changed a row.
C9_UnknownNodeAborts ==
    \A r \in Requests :
        (IsRun(r) /\ Has(nodes[r], "other")) =>
           /\ pc[r] = "failed"
           /\ nodes[r][Len(nodes[r])] = "other"
           /\ out[r] = ExpectedOut(nodes[r])
           /\ addCalls[r] = 0
           /\ wrote[r] = {}
           /\ \A i \in 1..Len(inflight) : inflight[i] # r

\* a run was aborted by an unknown node after it had flushed an event
C9_Witness ==
    \E r \in Requests :
        /\ IsRun(r) /\ Has(nodes[r], "other")
        /\ Len(out[r]) >= 2

\* C10: a run whose client went away before the completion node came never calls
\* add_messages and none of its steps writes a row.
C10_DisconnectNeverCommits ==
    \A r \in Requests :
        (IsRun(r) /\ pc[r] = "cancelled" /\ ~ Has(nodes[r], "end")) =>
           /\ addCalls[r] = 0
           /\ wrote[r] = {}
           /\ \A i \in 1..Len(queue) : queue[i].req # r

\* the client went away after events had been flushed
C10_Witness ==
    \E r \in Requests :
        /\ IsRun(r) /\ pc[r] = "cancelled" /\ ~ Has(nodes[r], "end")
        /\ Len(out[r]) >= 2

\* C11: every turn row carries the identifier of a session that has a session row.
C11_TurnsReferenceSession ==
    \A m \in messages : \E s \in sessions : s.id = m.session_id

\* the step that has just run, and the request it belongs to
Ran(w, sql) == Executed(w) /\ running[w][1].sql = sql
Appears(s2) == ~ \E s \in sessions : s.id = s2.id

\* C12: a session row appears only by a step of an add_messages call, for an
\* identifier that had no row: no other request path creates a session row.
C12_CreatedOnlyByAppend ==
    [][ \A s2 \in sessions' :
          Appears(s2) =>
             \E w \in Workers :
                /\ Ran(w, "ins_session")
                /\ s2.id = running[w][1].sid
                /\ addCalls[running[w][1].req] >= 1 ]_vars

\* C12 as amended: a session row appears only by the INSERT of an
\* _ensure_session_exists whose SELECT found no row of the caller, called by add_messages (the
\* one a streaming run makes at its end) or by create_new_session; get_messages,
\* get_session_agent, delete_session and a run before its add_messages create none.
C12_CreatedOnlyByEnsure ==
    [][ \A s2 \in sessions' :
          Appears(s2) =>
             \E w \in Workers :
                /\ Ran(w, "ins_session")
                /\ s2 = NewSession(running[w][1].sid, running[w][1].user,
                                   running[w][1].agent, running[w][1].t)
                /\ seen[running[w][1].req] \in {"absent", "foreign"}
                /\ \/ args[running[w][1].req].op = "create_new_session"
                   \/ /\ args[running[w][1].req].op \in {"add_messages", "post_chat"}
                      /\ addCalls[running[w][1].req] = 1 ]_vars

\* create_new_session has returned: the session has a row and no turn
C12_Witness ==
    \E r \in Requests :
        /\ args[r].op = "create_new_session" /\ pc[r] = "done"
        /\ SessionRowsOf(args[r].sid) # {}
        /\ TurnRowsOf(args[r].sid) = {}
        /\ addCalls[r] = 0

\* delete_session d has run its DELETE FROM messages and not yet its DELETE FROM sessions
MidDelete(d) ==
    /\ args[d].op = "delete_session"
    /\ \/ pc[d] = "del_msgs" /\ \A i \in 1..Len(inflight) : inflight[i] # d
       \/ pc[d] = "del_sess" /\ \E i \in 1..Len(inflight) : inflight[i] = d
    /\ SessionRowsOf(args[d].sid) # {}

\* C13: no step of a get_sessions, get_session_agent, get_messages or add_messages
\* call runs between the two DELETEs of an owner's delete_session, when the turn
\* rows of the session are gone and its session row is still there.
C13_DeleteAtomic ==
    [][ \A w \in Workers : \A d \in Requests :
          (Executed(w) /\ MidDelete(d))
             => args[running[w][1].req].op \notin
                   {"get_sessions", "get_session_agent", "get_messages", "add_messages"} ]_vars

Failed(res) == res.ok = FALSE

\* C14: a step that fails hands its error to the request that submitted it and to
\* no other: the steps waiting in the work queue stay there, the worker is free
\* for the next one, every step that runs is still the oldest one submitted, and
\* a request raises an engine error only out of its own step's result.
C14_FailureStaysLocal ==
    [][ /\ \A w \in Workers :
              Executed(w) =>
                 /\ running[w][1].req = Head(inflight)
                 /\ queue' = queue
                 /\ Len(ready') = Len(ready) + 1
                 /\ ready'[Len(ready')].req = running[w][1].req
                 /\ SubSeq(ready', 1, Len(ready)) = ready
                 /\ pc' = pc /\ ret' = ret
        /\ \A r \in Requests :
              (ret'[r] # ret[r] /\ ret'[r] = [kind |-> "raise", val |-> <<"OperationalError">>])
                 => /\ ready # <<>>
                    /\ Head(ready) = [req |-> r, ok |-> FALSE, val |-> <<"OperationalError">>]
                    /\ \A q \in Requests \ {r} : pc'[q] = pc[q] /\ ret'[q] = ret[q] ]_vars

\* the worker runs a step of one request while the error of an earlier step waits
\* to be delivered to another request
C14_Witness ==
    /\ ready # <<>>
    /\ Failed(Head(ready))
    /\ \E w \in Workers :
          /\ running[w] # NoStep
          /\ running[w][1].req # Head(ready).req

\* request r takes the error of its step from the event loop
Failing(r) ==
    /\ ready # <<>>
    /\ Head(ready).req = r
    /\ Failed(Head(ready))
    /\ ready' = Tail(ready)

\* C15: in every operation of the Database the error of a failed step is raised in
\* the caller, never turned into a return value, and no step is submitted again.
C15_FailurePropagates ==
    [][ \A r \in Requests :
          Failing(r) =>
             /\ pc'[r] = "failed"
             /\ ret'[r] = [kind |-> "raise", val |-> Head(ready).val]
             /\ queue' = queue ]_vars

\* C15 as amended: the error of a failed step is raised in the caller and the
\* step is not submitted again, in add_messages, get_messages, get_session_agent,
\* get_sessions and in the ownership check of delete_session; the error of one of
\* the two DELETE steps of delete_session is caught there and delete_session
\* returns False.
C15_FailurePropagatesOrFalse ==
    [][ \A r \in Requests :
          Failing(r) =>
             /\ queue' = queue
             /\ IF args[r].op = "delete_session" /\ pc[r] \in {"del_msgs", "del_sess"}
                THEN pc'[r] = "done" /\ ret'[r] = [kind |-> "return", val |-> FALSE]
                ELSE pc'[r] = "failed" /\ ret'[r] = [kind |-> "raise", val |-> Head(ready).val] ]_vars

\* the owner's delete_session has returned False after one of its DELETEs failed,
\* and another call has raised the error of its step
C15_Witness ==
    /\ \E r \in Requests :
          /\ args[r].op = "delete_session" /\ seen[r] = "own"
          /\ pc[r] = "done" /\ ret[r].val = FALSE
    /\ \E q \in Requests :
          /\ args[q].op # "delete_session"
          /\ pc[q] = "failed" /\ ret[q].val = <<"OperationalError">>

OwnedRows(user) == {SessionRow(s) : s \in {x \in sessions : x.username = user}}
NonIncreasing(q) ==
    \A i \in 1..Len(q) : \A j \in 1..Len(q) :
        i < j => q[i].last_message_at >= q[j].last_message_at

\* get_sessions g has returned right after the add_messages of the same owner
ListedAfterAppend(g) ==
    /\ g > 1
    /\ args[g].op = "get_sessions" /\ pc[g] = "done"
    /\ args[g - 1].op = "add_messages" /\ pc[g - 1] = "done"
    /\ args[g - 1].user = args[g].user
    /\ \A q \in Requests : q > g => pc[q] = "idle"

\* C16: get_sessions returns the rows of the owner and no others, by
\* non-increasing last_message_at, and right after an add_messages of the owner
\* on a session that session is the first entry.
C16_RecentFirst ==
    \A g \in Requests :
        (args[g].op = "get_sessions" /\ pc[g] = "done"
            /\ \A q \in Requests : q > g => pc[q] = "idle")
        => /\ IsPermOf(ret[g].val, OwnedRows(args[g].user))
           /\ NonIncreasing(ret[g].val)
           /\ ListedAfterAppend(g) => ret[g].val[1].id = args[g - 1].sid

\* C16 as amended: get_sessions returns the rows of the owner and no others, by
\* non-increasing last_message_at; right after an add_messages of the owner on a
\* session, that session is listed with the time the append read from the clock,
\* before every session with an earlier time, and first when every other session
\* of the owner has an earlier time.
C16_RecentFirstUpToTies ==
    \A g \in Requests :
        (args[g].op = "get_sessions" /\ pc[g] = "done"
            /\ \A q \in Requests : q > g => pc[q] = "idle")
        => /\ IsPermOf(ret[g].val, OwnedRows(args[g].user))
           /\ NonIncreasing(ret[g].val)
           /\ ListedAfterAppend(g) =>
                 \E i \in 1..Len(ret[g].val) :
                    /\ ret[g].val[i].id = args[g - 1].sid
                    /\ ret[g].val[i].last_message_at = now
                    /\ \A j \in 1..Len(ret[g].val) :
                          ret[g].val[j].last_message_at < now => i < j
                    /\ (\A j \in 1..Len(ret[g].val) :
                          j # i => ret[g].val[j].last_message_at < now) => i = 1

\* the owner has two sessions, has appended to the one that was there before the
\* other was created, and get_sessions lists that one first
C16_Witness ==
    \E g \in Requests :
        /\ ListedAfterAppend(g)
        /\ Len(ret[g].val) = 2
        /\ ret[g].val[1].id = args[g - 1].sid
        /\ ret[g].val[1].id \in SessionIds /\ ret[g].val[2].id \in FreshIds
        /\ ret[g].val[1].last_message_at > ret[g].val[2].last_message_at

\* get_session_agent returns or raises in request r
AgentResolved(r) == pc[r] = "ga_fetch" /\ pc'[r] \notin {"ga_fetch", "cancelled"}
AgentOf(sid, user) == {s.agent_name : s \in {x \in sessions : x.id = sid /\ x.username = user}}

\* C17: get_session_agent raises its not-found error exactly when its SELECT
\* found no session row of that identifier and owner, and otherwise hands on the
\* agent name of the row; a run that got the not-found error has flushed the
\* prompt chunk only, has started no agent run and has made no add_messages call.
C17_NotFoundExactly ==
    [][ \A r \in Requests :
          /\ AgentResolved(r) =>
                IF seen[r] \in {"absent", "foreign"}
                THEN /\ pc'[r] = "failed"
                     /\ ret'[r] = [kind |-> "raise", val |-> <<"ValueError">>]
                ELSE /\ pc'[r] \in {"gm_select", "failed"}
                     /\ pc'[r] = "failed" =>
                           ret'[r] = [kind |-> "raise", val |-> <<"KeyError">>]
                     /\ AgentOf(args[r].sid, args[r].user) # {} =>
                           IF pc'[r] = "gm_select"
                           THEN loc'[r].agent_name \in AgentOf(args[r].sid, args[r].user)
                           ELSE AgentOf(args[r].sid, args[r].user) \cap all_agents = {}
          /\ (IsRun(r) /\ ret'[r] = [kind |-> "raise", val |-> <<"ValueError">>])
                => /\ pc'[r] = "failed"
                   /\ out'[r] = <<Chunk("prompt", 0, TRUE)>>
                   /\ nodes'[r] = <<>>
                   /\ addCalls'[r] = 0
                   /\ wrote'[r] = {}
                   /\ \A i \in 1..Len(inflight') : inflight'[i] # r ]_vars

\* a run of another identity on an existing session has ended with the not-found error
C17_Witness ==
    \E r \in Requests :
        /\ IsRun(r) /\ pc[r] = "failed" /\ ret[r].val = <<"ValueError">>
        /\ seen[r] = "foreign"
        /\ SessionRowsOf(args[r].sid) # {}

\* a credential that is missing, that does not decode, or that has no subject
Unusable(token) == token.kind \in {"missing", "undecodable"} \/ token.sub = "none"
HasStep(r) ==
    \/ \E i \in 1..Len(queue) : queue[i].req = r
    \/ \E w \in Workers : running[w] # NoStep /\ running[w][1].req = r
    \/ \E i \in 1..Len(ready) : ready[i].req = r
    \/ \E i \in 1..Len(inflight) : inflight[i] = r

\* C18: a request to a core route with no usable credential ends with
\* NotAuthenticated; it has submitted no storage step and flushed no chunk.
C18_RejectedBeforeCore ==
    \A r \in Requests :
        (pc[r] # "idle" /\ Unusable(args[r].token))
        => /\ pc[r] = "failed"
           /\ ret[r] = [kind |-> "raise", val |-> <<"NotAuthenticated">>]
           /\ ~ HasStep(r)
           /\ seen[r] = "none" /\ wrote[r] = {} /\ addCalls[r] = 0
           /\ out[r] = <<>> /\ nodes[r] = <<>>

\* a streaming request whose token has no subject was rejected while a request
\* of a logged-in user has a storage step in the work queue
C18_Witness ==
    \E r \in Requests : \E q \in Requests :
        /\ args[r].op = "post_chat" /\ pc[r] = "failed"
        /\ args[r].token = access_token("none")
        /\ q # r /\ \E i \in 1..Len(queue) : queue[i].req = q

\* C19: every chunk a run has flushed ends with a newline, and a chunk is flushed
\* when its node comes: at any time the run has flushed the prompt chunk and one
\* chunk for each accepted node the agent has emitted so far.
C19_ChunksNewlineTerminated ==
    \A r \in Requests :
        IsRun(r) =>
           /\ Len(out[r]) = 1 + Len(Accepted(nodes[r]))
           /\ \A i \in 1..Len(out[r]) : out[r][i].nl

Submitted(r) == \E i \in 1..Len(inflight) : inflight[i] = r
Stalled(r) == pc[r] = "run"

\* C20: with the worker thread and the event loop scheduled fairly, and whether
\* or not a run waits for ever for the next node of the agent engine, every step
\* that was submitted is executed, and every request goes on until it has ended
\* or is itself waiting for the agent engine.
C20_StallBlocksNobody ==
    \A r \in Requests :
        /\ Submitted(r) ~> ~ Submitted(r)
        /\ (InFlight(r) /\ ~ Stalled(r)) ~> (pc[r] \in Final \/ Stalled(r))

\* a run waits for the agent engine while a step of another request is in the
\* work queue
C20_Witness ==
    \E r \in Requests : \E q \in Requests :
        /\ IsRun(r) /\ Stalled(r)
        /\ q # r /\ InFlight(q)
        /\ \E i \in 1..Len(queue) : queue[i].req = q

IntegrityError(res, r) ==
    res.req = r /\ res.ok = FALSE /\ res.val = <<"IntegrityError">>

\* C22: when the INSERT INTO sessions of an add_messages call runs while the
\* identifier has a session row of another identity, the INSERT leaves both tables
\* as they are and its result is an IntegrityError; the call that receives that
\* error raises it, submits no further statement and has written nothing; and a
\* call whose ownership SELECT met the row of another identity runs its INSERT
\* INTO messages or its UPDATE of last_message_at only after that row was deleted
\* and the call created the session row itself.
C22_ForeignAppendRejected ==
    [][ /\ \A w \in Workers :
              ( /\ Ran(w, "ins_session")
                /\ args[running[w][1].req].op = "add_messages"
                /\ Classify(running[w][1].sid, running[w][1].user) = "foreign" )
              => /\ sessions' = sessions /\ messages' = messages
                 /\ Len(ready') = Len(ready) + 1
                 /\ SubSeq(ready', 1, Len(ready)) = ready
                 /\ IntegrityError(ready'[Len(ready')], running[w][1].req)
        /\ \A r \in Requests :
              ( /\ args[r].op = "add_messages"
                /\ ready # <<>> /\ IntegrityError(Head(ready), r)
                /\ ready' = Tail(ready) )
              => /\ pc'[r] = "failed"
                 /\ ret'[r] = [kind |-> "raise", val |-> <<"IntegrityError">>]
                 /\ queue' = queue
                 /\ wrote'[r] = {}
        /\ \A w \in Workers :
              ( /\ Ran(w, "ins_message") \/ Ran(w, "upd_last")
                /\ args[running[w][1].req].op = "add_messages"
                /\ seen[running[w][1].req] = "foreign" )
              => "ins_session" \in wrote[running[w][1].req] ]_vars

\* add_messages of another identity on an owner's session has raised; the session
\* row of the owner and its turn are as they were stored
C22_Witness ==
    \E r \in Requests :
        /\ args[r].op = "add_messages" /\ seen[r] = "foreign"
        /\ pc[r] = "failed"
        /\ ret[r] = [kind |-> "raise", val |-> <<"IntegrityError">>]
        /\ wrote[r] = {}
        /\ args[r].sid = StoredSession.id /\ args[r].user # StoredSession.username
        /\ sessions = {StoredSession}
        /\ messages = {StoredMessage}

\* the turn of request r is stored
Persisted(r) == \E m \in messages : m.message_list = Payload(r)

\* C23: a streaming run never inserts a session row, and once delete_session has
\* returned true for a session, a run on that session that was in progress when
\* the delete started and has finished has left no turn row of its own.
C23_RunNeverCreates ==
    \A r \in Requests :
        IsRun(r) =>
           /\ "ins_session" \notin wrote[r]
           /\ \A d \in Requests :
                 ( /\ args[d].op = "delete_session" /\ pc[d] = "done"
                   /\ ret[d].val = TRUE
                   /\ args[d].sid = args[r].sid
                   /\ r \in during[d]
                   /\ pc[r] = "done" )
                 => ~ Persisted(r)

\* the identity whose add_messages call appended turn event e (the stored turn of
\* the initial state was appended by the owner of the stored session)
AppendedBy(e) == IF e[1] = 0 THEN StoredSession.username ELSE args[e[1]].user

\* C21: every turn event that get_messages(id, o) returns was appended by an
\* add_messages call made with owner o.
C21_ReadsOnlyOwnTurns ==
    \A g \in Requests :
        (args[g].op = "get_messages" /\ pc[g] = "done")
        => \A i \in 1..Len(ret[g].val) : AppendedBy(ret[g].val[i]) = args[g].user

====
